---- MODULE Spec2Model ----
(***************************************************************************)
(* ResearchAI: the research loop of main.py driving the ResearchAI object  *)
(* of researcher.py, with its token / cost ledger.                         *)
(*                                                                         *)
(* Python numbers.  total_cost and total_budget are Python floats          *)
(* (IEEE-754 binary64, round to nearest even).  A number is modelled as    *)
(*     [neg |-> BOOLEAN, m |-> mantissa, e |-> exponent]                    *)
(* of value (-1)^neg * m * 2^e, where m is a natural number of exactly     *)
(* MantBits bits, or zero.  Mantissas are wider than the model checker's   *)
(* integers, so a natural number is a little-endian sequence of limbs in   *)
(* base Base with no leading zero limb; << >> is 0.  Exponent overflow,    *)
(* subnormals and the sign of zero are outside the range of values the     *)
(* model reaches and are not modelled.                                     *)
(***************************************************************************)
EXTENDS Integers, Sequences, FiniteSets, TLC

Base == 2^15
LimbBits == 15
MantBits == 53

(* ------------------------- natural numbers ---------------------------- *)

RestOf(a) == IF a = << >> THEN << >> ELSE Tail(a)
FirstOf(a) == IF a = << >> THEN 0 ELSE Head(a)

RECURSIVE NTrim(_)
NTrim(a) ==
    IF a = << >> THEN a
    ELSE IF a[Len(a)] = 0 THEN NTrim(SubSeq(a, 1, Len(a) - 1)) ELSE a

RECURSIVE NFromInt(_)
NFromInt(k) == IF k = 0 THEN << >> ELSE <<k % Base>> \o NFromInt(k \div Base)

RECURSIVE NAddC(_, _, _)
NAddC(a, b, c) ==
    IF a = << >> /\ b = << >>
    THEN (IF c = 0 THEN << >> ELSE <<c>>)
    ELSE LET s == FirstOf(a) + FirstOf(b) + c
         IN  <<s % Base>> \o NAddC(RestOf(a), RestOf(b), s \div Base)

NAdd(a, b) == NAddC(a, b, 0)

\* a - b for a >= b
RECURSIVE NSubB(_, _, _)
NSubB(a, b, borrow) ==
    IF a = << >> THEN << >>
    ELSE LET d == Head(a) - FirstOf(b) - borrow
         IN  IF d < 0
             THEN <<d + Base>> \o NSubB(Tail(a), RestOf(b), 1)
             ELSE <<d>> \o NSubB(Tail(a), RestOf(b), 0)

NSub(a, b) == NTrim(NSubB(a, b, 0))

\* a * k for 0 <= k <= Base
RECURSIVE NMulC(_, _, _)
NMulC(a, k, c) ==
    IF a = << >> THEN (IF c = 0 THEN << >> ELSE <<c>>)
    ELSE LET s == Head(a) * k + c
         IN  <<s % Base>> \o NMulC(Tail(a), k, s \div Base)

NMulSmall(a, k) == NTrim(NMulC(a, k, 0))

RECURSIVE NMul(_, _)
NMul(a, b) ==
    IF a = << >> \/ b = << >> THEN << >>
    ELSE NTrim(NAdd(NMulSmall(a, Head(b)), <<0>> \o NMul(a, Tail(b))))

\* quotient and remainder of a by d, 0 < d <= Base, from the top limb down
NDivPut(rest, limb) == [q |-> rest.q \o <<limb>>, r |-> rest.r]

RECURSIVE NDivStep(_, _, _, _)
NDivStep(a, d, i, r) ==
    IF i = 0 THEN [q |-> << >>, r |-> r]
    ELSE NDivPut(NDivStep(a, d, i - 1, (r * Base + a[i]) % d),
                 (r * Base + a[i]) \div d)

NTrimQ(x) == [q |-> NTrim(x.q), r |-> x.r]

NDivSmall(a, d) == NTrimQ(NDivStep(a, d, Len(a), 0))

RECURSIVE NLessFrom(_, _, _)
NLessFrom(a, b, i) ==
    IF i = 0 THEN FALSE
    ELSE IF a[i] # b[i] THEN a[i] < b[i] ELSE NLessFrom(a, b, i - 1)

NLess(a, b) ==
    IF Len(a) # Len(b) THEN Len(a) < Len(b) ELSE NLessFrom(a, b, Len(a))

RECURSIVE IntBitLen(_)
IntBitLen(k) == IF k = 0 THEN 0 ELSE 1 + IntBitLen(k \div 2)

NBitLen(a) ==
    IF a = << >> THEN 0 ELSE LimbBits * (Len(a) - 1) + IntBitLen(a[Len(a)])

NIsOdd(a) == a # << >> /\ a[1] % 2 = 1

Zeros(n) == [i \in 1..n |-> 0]

\* a * 2^s
NShl(a, s) ==
    IF a = << >> THEN << >>
    ELSE Zeros(s \div LimbBits) \o NMulSmall(a, 2^(s % LimbBits))

\* floor(a / 2^s) for 2^s <= a, and whether any bit was shifted out
NShrPut(x, low) ==
    [q |-> x.q, sticky |-> x.r # 0 \/ \E i \in 1..Len(low) : low[i] # 0]

NShr(a, s) ==
    NShrPut(NDivSmall(SubSeq(a, s \div LimbBits + 1, Len(a)), 2^(s % LimbBits)),
            SubSeq(a, 1, s \div LimbBits))

(* ------------------------- Python floats ------------------------------ *)

FZero == [neg |-> FALSE, m |-> << >>, e |-> 0]

FIsZero(x) == x.m = << >>

\* q * 2^e for q of MantBits or MantBits + 1 bits (a rounding that carried)
FRoundCarry(neg, q, e) ==
    IF NBitLen(q) > MantBits
    THEN [neg |-> neg, m |-> NShr(q, 1).q, e |-> e + 1]
    ELSE [neg |-> neg, m |-> q, e |-> e]

\* h.q is the kept part, h.r the first bit dropped, sticky the rest:
\* to nearest, ties to even
FRoundHalf(neg, h, e, sticky) ==
    FRoundCarry(neg,
                IF h.r = 1 /\ (sticky \/ NIsOdd(h.q)) THEN NAdd(h.q, <<1>>)
                ELSE h.q,
                e)

FRoundDrop(neg, sh, e, sticky) ==
    FRoundHalf(neg, NDivSmall(sh.q, 2), e, sticky \/ sh.sticky)

FRoundBits(neg, n, e, sticky, bits) ==
    IF bits <= MantBits
    THEN [neg |-> neg, m |-> NShl(n, MantBits - bits), e |-> e - (MantBits - bits)]
    ELSE FRoundDrop(neg, NShr(n, bits - MantBits - 1), e + bits - MantBits, sticky)

\* n * 2^e (plus a nonzero fraction below the last bit of n when sticky),
\* rounded to MantBits bits
FRound(neg, n, e, sticky) ==
    IF n = << >> THEN FZero ELSE FRoundBits(neg, n, e, sticky, NBitLen(n))

\* float(k) for a Python int k
FFromInt(k) == FRound(k < 0, NFromInt(IF k < 0 THEN -k ELSE k), 0, FALSE)

FNeg(x) == IF FIsZero(x) THEN x ELSE [x EXCEPT !.neg = ~x.neg]

\* x * y
FMul(x, y) == FRound(x.neg # y.neg, NMul(x.m, y.m), x.e + y.e, FALSE)

\* the sum of two numbers of mantissas a, b aligned at exponent e
FAddAligned(xneg, a, yneg, b, e) ==
    FRound(IF xneg = yneg \/ ~NLess(a, b) THEN xneg ELSE yneg,
           IF xneg = yneg THEN NAdd(a, b)
           ELSE IF NLess(a, b) THEN NSub(b, a) ELSE NSub(a, b),
           e, FALSE)

FAddAt(x, y, e) ==
    FAddAligned(x.neg, NShl(x.m, x.e - e), y.neg, NShl(y.m, y.e - e), e)

\* x + y: the exact sum of the two aligned mantissas, rounded once
FAdd(x, y) ==
    IF FIsZero(x) THEN y
    ELSE IF FIsZero(y) THEN x
    ELSE FAddAt(x, y, IF x.e < y.e THEN x.e ELSE y.e)

FDivQuotient(neg, x4, e) == FRound(neg, x4.q, e, x4.r # 0)

\* x / d for a Python int d, 0 < d <= Base (d converts to float exactly)
FDivInt(x, d) ==
    FDivQuotient(x.neg, NDivSmall(NShl(x.m, 4 * LimbBits), d), x.e - 4 * LimbBits)

FLessAligned(xneg, a, b) == IF xneg THEN NLess(b, a) ELSE NLess(a, b)

FLessAt(x, y, e) == FLessAligned(x.neg, NShl(x.m, x.e - e), NShl(y.m, y.e - e))

\* x < y
FLess(x, y) ==
    IF FIsZero(x) THEN ~FIsZero(y) /\ ~y.neg
    ELSE IF FIsZero(y) THEN x.neg
    ELSE IF x.neg # y.neg THEN x.neg
    ELSE FLessAt(x, y, IF x.e < y.e THEN x.e ELSE y.e)

\* the float a decimal literal num/den denotes (the nearest double)
FLit(num, den) == FDivInt(FFromInt(num), den)

(* ------------------------- Python values ------------------------------ *)

\* None, and a list of strings (List[str] = None fields hold one or the other)
NoneList == [some |-> FALSE, items |-> << >>]
ListOf(items) == [some |-> TRUE, items |-> items]

\* None where a str is expected
NoneStr == "<None>"

(* ------------------------- modelsinfo.COSTS --------------------------- *)

\* the models the table lists
PricedModels == {"gpt-3.5-turbo", "gpt-4", "text-embedding-ada-002"}

\* price per 1000 tokens of each model of the table
COSTS ==
    [m \in PricedModels |->
        CASE m = "gpt-3.5-turbo" ->
                [prompt |-> FLit(2, 1000), completion |-> FLit(2, 1000)]
          [] m = "gpt-4" ->
                [prompt |-> FLit(3, 100), completion |-> FLit(6, 100)]
          [] m = "text-embedding-ada-002" ->
                [prompt |-> FLit(4, 10000), completion |-> FZero]]

(* ------------------------- bounds and inputs --------------------------- *)

\* direct update_cost calls logged since the ledger was fresh or reset
MaxCalls == 3
\* provider requests issued directly on the object
MaxRequests == 2
\* iterations of the research loop
MaxTurns == 2

\* a model identifier the price table does not list
UnlistedModel == "unlisted-model"

\* (prompt_tokens, completion_tokens) arguments of direct update_cost calls:
\* any Python ints are taken, a negative count included
TokenArgs == {<<0, 1>>, <<1, 1>>, <<-1, 0>>}
ModelArgs == {"gpt-3.5-turbo", "gpt-4", UnlistedModel}

VARIABLES
    question, sub_questions, context,           \* researcher.py 41-43
    sub_questions_answered, main_question_answered, turn,   \* 45-48
    model, temperature, max_tokens,             \* 50-52
    total_prompt_tokens, total_completion_tokens,           \* 54-55
    total_cost, total_budget,                   \* 56-57
    pc,          \* where research_loop (main.py) stands
    last,        \* the method called last on the object
    raised,      \* the exception that call raised, or "none"
    calls,       \* arguments of the direct update_cost calls since fresh / reset
    requests,    \* provider requests issued so far
    gateway,     \* the last provider request: outcome and reported usage
    prompt,      \* what generate_first_prompt returned last
    proposal,    \* what get_proposed_research_json returned last
    iterations   \* completed iterations of the while loop of research_loop

session  == <<question, sub_questions, context>>
flags    == <<sub_questions_answered, main_question_answered, turn>>
settings == <<model, temperature, max_tokens>>
tokens   == <<total_prompt_tokens, total_completion_tokens>>
ledger   == <<total_prompt_tokens, total_completion_tokens, total_cost>>
observed == <<calls, requests, gateway, prompt, proposal, iterations>>

vars == <<question, sub_questions, context, sub_questions_answered,
          main_question_answered, turn, model, temperature, max_tokens,
          total_prompt_tokens, total_completion_tokens, total_cost,
          total_budget, pc, last, raised, calls, requests, gateway, prompt,
          proposal, iterations>>

NoRequest == [ok |-> FALSE, model |-> NoneStr, prompt_tokens |-> 0, completion_tokens |-> 0]
NoPrompt == [state |-> << >>, content |-> << >>]
NoProposal == [kind |-> "none", internet_search |-> FALSE]

\* rai = ResearchAI(): the class attributes
Init ==
    /\ question = NoneStr
    /\ sub_questions = NoneList
    /\ context = NoneList
    /\ sub_questions_answered = FALSE
    /\ main_question_answered = FALSE
    /\ turn = 0
    /\ model = "gpt-3.5-turbo"
    /\ temperature = FZero
    /\ max_tokens = 500
    /\ total_prompt_tokens = 0
    /\ total_completion_tokens = 0
    /\ total_cost = FZero
    /\ total_budget = FZero
    /\ pc = "idle"
    /\ last = "ResearchAI"
    /\ raised = "none"
    /\ calls = << >>
    /\ requests = 0
    /\ gateway = NoRequest
    /\ prompt = NoPrompt
    /\ proposal = NoProposal
    /\ iterations = 0

(* ------------------------- the ledger ---------------------------------- *)

Ledger == [total_prompt_tokens     |-> total_prompt_tokens,
           total_completion_tokens |-> total_completion_tokens,
           total_cost              |-> total_cost]

\* the two token totals advanced (researcher.py 208-209)
TokensAdded(L, prompt_tokens, completion_tokens) ==
    [L EXCEPT !.total_prompt_tokens = @ + prompt_tokens,
              !.total_completion_tokens = @ + completion_tokens]

\* the cost advanced by the price of the call (researcher.py 210-213)
CostAdded(L, prompt_tokens, completion_tokens, price) ==
    [L EXCEPT !.total_cost =
        FAdd(@, FDivInt(FAdd(FMul(FFromInt(prompt_tokens), price.prompt),
                             FMul(FFromInt(completion_tokens), price.completion)),
                        1000))]

\* update_cost with a table lookup that prices an unlisted model at zero
update_cost_unlisted_free(L, prompt_tokens, completion_tokens, mdl) ==
    [ledger |->
        CostAdded(TokensAdded(L, prompt_tokens, completion_tokens),
                  prompt_tokens, completion_tokens,
                  IF mdl \in PricedModels THEN COSTS[mdl]
                  ELSE [prompt |-> FZero, completion |-> FZero]),
     raised |-> "none"]

\* update_cost: the two token totals are advanced first, then the price
\* table is indexed (KeyError for a model it does not list), then the cost
update_cost(L, prompt_tokens, completion_tokens, mdl) ==
    IF mdl \notin PricedModels
    THEN [ledger |-> TokensAdded(L, prompt_tokens, completion_tokens),
          raised |-> "KeyError"]
    ELSE [ledger |-> CostAdded(TokensAdded(L, prompt_tokens, completion_tokens),
                               prompt_tokens, completion_tokens, COSTS[mdl]),
          raised |-> "none"]

\* the ledger and the exception a call leaves
Outcome(r) ==
    /\ total_prompt_tokens' = r.ledger.total_prompt_tokens
    /\ total_completion_tokens' = r.ledger.total_completion_tokens
    /\ total_cost' = r.ledger.total_cost
    /\ raised' = r.raised

\* a direct call rai.update_cost(prompt_tokens, completion_tokens, mdl)
UpdateCost(prompt_tokens, completion_tokens, mdl) ==
    /\ pc = "idle"
    /\ Len(calls) < MaxCalls
    /\ Outcome(update_cost(Ledger, prompt_tokens, completion_tokens, mdl))
    /\ last' = "update_cost"
    /\ calls' = Append(calls, [prompt_tokens |-> prompt_tokens,
                               completion_tokens |-> completion_tokens,
                               model |-> mdl])
    /\ UNCHANGED <<session, flags, settings, total_budget, pc, requests,
                   gateway, prompt, proposal, iterations>>

\* rai.set_total_budget(total_budget)
SetTotalBudget(budget) ==
    /\ pc = "idle"
    /\ total_budget' = budget
    /\ last' = "set_total_budget"
    /\ raised' = "none"
    /\ UNCHANGED <<session, flags, settings, ledger, pc, observed>>

\* reset that leaves the budget as it was
reset_keeps_budget ==
    /\ main_question_answered' = FALSE
    /\ sub_questions_answered' = FALSE
    /\ turn' = 0
    /\ total_prompt_tokens' = 0
    /\ total_completion_tokens' = 0
    /\ total_cost' = FZero
    /\ UNCHANGED total_budget
    /\ UNCHANGED <<session, settings>>

\* reset that also forgets the question and its context
reset_forgets_question ==
    /\ main_question_answered' = FALSE
    /\ sub_questions_answered' = FALSE
    /\ turn' = 0
    /\ total_prompt_tokens' = 0
    /\ total_completion_tokens' = 0
    /\ total_cost' = FZero
    /\ total_budget' = FZero
    /\ question' = NoneStr
    /\ context' = NoneList
    /\ UNCHANGED <<sub_questions, settings>>

\* rai.reset(), between sessions: seven fields are assigned, the others
\* (question, sub_questions, context, model, temperature, max_tokens) are not
reset ==
    /\ main_question_answered' = FALSE
    /\ sub_questions_answered' = FALSE
    /\ turn' = 0
    /\ total_prompt_tokens' = 0
    /\ total_completion_tokens' = 0
    /\ total_cost' = FZero
    /\ total_budget' = FZero
    /\ UNCHANGED <<session, settings>>

Reset ==
    /\ pc \in {"idle", "Concluded", "Crashed"}
    /\ reset
    /\ last' = "reset"
    /\ raised' = "none"
    /\ calls' = << >>
    /\ UNCHANGED <<pc, requests, gateway, prompt, proposal, iterations>>

get_total_prompt_tokens == total_prompt_tokens
get_total_completion_tokens == total_completion_tokens
get_total_cost == total_cost
get_total_budget == total_budget

(* ------------------------- the turn protocol --------------------------- *)

\* str(x) inside an f-string
StrOfStr(x) == IF x = NoneStr THEN "None" ELSE x
StrOfList(x) == IF x.some THEN [text |-> "list", items |-> x.items]
                ELSE [text |-> "None", items |-> << >>]

create_chat_message(role, content) == [role |-> role, content |-> content]

\* generate_first_prompt that also reports the tokens used so far
generate_first_prompt_with_usage ==
    << "You are a researcher, and you are trying to answer the following research question: ",
       StrOfStr(question),
       ". You should NOT use your own knowledge ... Your current sub-questions related to this are: ",
       StrOfList(sub_questions),
       ". You have found the following information: ",
       StrOfList(context),
       ". Your research takes place in turns ... You are currently in turn {turn}. ...",
       total_prompt_tokens >>

\* the string generate_first_prompt builds from the fields of self, as its
\* segments.  The last segment is a plain (not an f-) string: "{turn}"
\* stays as written, whatever self.turn is.
first_prompt_content(self_question, self_sub_questions, self_context, self_turn) ==
    << "You are a researcher, and you are trying to answer the following research question: ",
       StrOfStr(self_question),
       ". You should NOT use your own knowledge ... Your current sub-questions related to this are: ",
       StrOfList(self_sub_questions),
       ". You have found the following information: ",
       StrOfList(self_context),
       ". Your research takes place in turns ... You are currently in turn {turn}. ..." >>

\* rai.generate_first_prompt()
generate_first_prompt ==
    first_prompt_content(question, sub_questions, context, turn)

\* the session state a prompt was rendered from, kept beside its content
SessionState == <<question, sub_questions, context, turn>>
Prompted == [state |-> SessionState, content |-> generate_first_prompt]

(* ------------------------- the completion gateway ---------------------- *)

\* what the provider may report for one request
Usages == {[prompt_tokens |-> 1, completion_tokens |-> 1],
           [prompt_tokens |-> 5000, completion_tokens |-> 5000]}

\* create_chat_completion: openai.ChatCompletion.create raises (ok = FALSE)
\* or returns a response whose usage goes to update_cost
create_chat_completion(L, ok, usage, mdl) ==
    IF ~ok THEN [ledger |-> L, raised |-> "APIError"]
    ELSE update_cost(L, usage.prompt_tokens, usage.completion_tokens, mdl)

\* embedding_create: as above, with no completion tokens
embedding_create(L, ok, usage, mdl) ==
    IF ~ok THEN [ledger |-> L, raised |-> "APIError"]
    ELSE update_cost(L, usage.prompt_tokens, 0, mdl)

Requested(ok, usage, mdl) ==
    /\ requests' = requests + 1
    /\ gateway' = [ok |-> ok, model |-> mdl,
                   prompt_tokens |-> IF ok THEN usage.prompt_tokens ELSE 0,
                   completion_tokens |-> IF ok THEN usage.completion_tokens ELSE 0]

\* a direct call rai.create_chat_completion(messages, model=mdl, ...)
CreateChatCompletion(ok, usage, mdl) ==
    /\ pc = "idle"
    /\ requests < MaxRequests
    /\ Outcome(create_chat_completion(Ledger, ok, usage, mdl))
    /\ Requested(ok, usage, mdl)
    /\ last' = "create_chat_completion"
    /\ UNCHANGED <<session, flags, settings, total_budget, pc, calls, prompt,
                   proposal, iterations>>

\* a direct call rai.embedding_create(text_list, model=mdl)
EmbeddingCreate(ok, usage, mdl) ==
    /\ pc = "idle"
    /\ requests < MaxRequests
    /\ Outcome(embedding_create(Ledger, ok, usage, mdl))
    /\ Requested(ok, [usage EXCEPT !.completion_tokens = 0], mdl)
    /\ last' = "embedding_create"
    /\ UNCHANGED <<session, flags, settings, total_budget, pc, calls, prompt,
                   proposal, iterations>>

\* what the model may answer to the proposal prompt: the JSON object asked
\* for, text that is no JSON, or JSON of another shape
Responses ==
    {[kind |-> "proposal", internet_search |-> b] : b \in BOOLEAN}
      \cup {[kind |-> "not_json", internet_search |-> FALSE],
            [kind |-> "other_json", internet_search |-> FALSE]}

\* json.loads(response.choices[0].message.content)
json_loads(resp) ==
    IF resp.kind = "not_json"
    THEN [actions |-> NoProposal, raised |-> "JSONDecodeError"]
    ELSE [actions |-> resp, raised |-> "none"]

\* get_proposed_research_json that records the usage only once the answer
\* has parsed
Proposed_parse_first(r, parsed) ==
    /\ IF parsed.raised = "none"
       THEN /\ total_prompt_tokens' = r.ledger.total_prompt_tokens
            /\ total_completion_tokens' = r.ledger.total_completion_tokens
            /\ total_cost' = r.ledger.total_cost
       ELSE UNCHANGED ledger
    /\ raised' = IF r.raised # "none" THEN r.raised ELSE parsed.raised
    /\ proposal' = IF r.raised = "none" /\ parsed.raised = "none"
                   THEN parsed.actions ELSE proposal

\* what get_proposed_research_json leaves: r is what create_chat_completion
\* left, parsed what json.loads gives once the completion has returned
Proposed(r, parsed) ==
    /\ total_prompt_tokens' = r.ledger.total_prompt_tokens
    /\ total_completion_tokens' = r.ledger.total_completion_tokens
    /\ total_cost' = r.ledger.total_cost
    /\ raised' = IF r.raised # "none" THEN r.raised ELSE parsed.raised
    /\ proposal' = IF r.raised = "none" /\ parsed.raised = "none"
                   THEN parsed.actions ELSE proposal

\* get_proposed_research_json: prompt, completion (usage recorded), then
\* json.loads of the answer; nothing is validated or repaired
get_proposed_research_json(ok, usage, resp) ==
    /\ prompt' = Prompted
    /\ Requested(ok, usage, model)
    /\ last' = "get_proposed_research_json"
    /\ Proposed(create_chat_completion(Ledger, ok, usage, model), json_loads(resp))

\* a direct call, as the script at the end of researcher.py makes
GetProposedResearchJson(ok, usage, resp) ==
    /\ pc = "idle"
    /\ requests < MaxRequests
    /\ get_proposed_research_json(ok, usage, resp)
    /\ UNCHANGED <<session, flags, settings, total_budget, pc, calls,
                   iterations>>

\* a direct call rai.generate_first_prompt()
GenerateFirstPrompt ==
    /\ pc = "idle"
    /\ prompt' = Prompted
    /\ last' = "generate_first_prompt"
    /\ raised' = "none"
    /\ UNCHANGED <<session, flags, settings, ledger, total_budget, pc, calls,
                   requests, gateway, proposal, iterations>>

(* ------------------------- define_question ----------------------------- *)

QuestionArgs == {NoneStr, "", "What is the mass cutoff for a low mass star?"}
TypedQuestions == {"", "What is the mass cutoff for a low mass star?"}
ContextArgs == {NoneList, ListOf(<<"Begin by looking up star formation regions">>)}
TypedContexts == {<< >>}

\* define_question(question, context): a question of None is read from the
\* user (and refused when empty), a context of None is read line by line
DefineQuestion(question_arg, context_arg, typed_question, typed_context) ==
    /\ pc = "idle"
    /\ last' = "define_question"
    /\ IF question_arg = NoneStr /\ typed_question = ""
       THEN /\ raised' = "ValueError"
            /\ UNCHANGED session
       ELSE /\ raised' = "none"
            /\ question' = IF question_arg = NoneStr THEN typed_question
                           ELSE question_arg
            /\ context' = IF context_arg = NoneList THEN ListOf(typed_context)
                          ELSE context_arg
            /\ UNCHANGED sub_questions
    /\ UNCHANGED <<flags, settings, ledger, total_budget, pc, observed>>

(* ------------------------- research_loop (main.py) --------------------- *)

\* what the provider reports for a request of the loop
LoopUsages == {[prompt_tokens |-> 5000, completion_tokens |-> 5000]}

Budgets == {FZero, FLit(1, 100)}

\* arguments of direct set_total_budget calls: any float is taken
BudgetArgs == Budgets \cup {FNeg(FLit(1, 100))}

\* the loop is entered: rai is as the caller configured it
StartLoop ==
    /\ pc = "idle"
    /\ pc' = "loop_head"
    /\ UNCHANGED <<session, flags, settings, ledger, total_budget, last,
                   raised, observed>>

\* a loop head that also stops once the cost is above the budget, set or not
LoopHead_stops_over_budget ==
    /\ pc = "loop_head"
    /\ IF main_question_answered \/ FLess(total_budget, total_cost)
       THEN pc' = "final_summary"
       ELSE iterations < MaxTurns /\ pc' = "propose"
    /\ UNCHANGED <<session, flags, settings, ledger, total_budget, last,
                   raised, observed>>

\* while not rai.main_question_answered
LoopHead ==
    /\ pc = "loop_head"
    /\ IF main_question_answered THEN pc' = "final_summary"
       ELSE iterations < MaxTurns /\ pc' = "propose"
    /\ UNCHANGED <<session, flags, settings, ledger, total_budget, last,
                   raised, observed>>

\* where the loop goes after a call: on, or out with the exception
After(next) == pc' = IF raised' = "none" THEN next ELSE "Crashed"

\* rai.get_proposed_research_json(); the returned actions are dropped
Propose(ok, usage, resp) ==
    /\ pc = "propose"
    /\ get_proposed_research_json(ok, usage, resp)
    /\ After("summarize")
    /\ UNCHANGED <<session, flags, settings, total_budget, calls, iterations>>

\* a step that asks the model: a billed completion on self.model
Billed(name, ok, usage) ==
    /\ Outcome(create_chat_completion(Ledger, ok, usage, model))
    /\ Requested(ok, usage, model)
    /\ last' = name

\* summarize_findings(): the context is replaced by its summary
summarize_findings(ok, usage) ==
    /\ Billed("summarize_findings", ok, usage)
    /\ context' = IF ok THEN ListOf(<<"summary">>) ELSE context

Summarize(ok, usage) ==
    /\ pc = "summarize"
    /\ summarize_findings(ok, usage)
    /\ After("devise")
    /\ UNCHANGED <<question, sub_questions, flags, settings, total_budget,
                   calls, prompt, proposal, iterations>>

SubQuestionLists == {<<"sub-question">>}

\* devise_sub_questions(): the model's sub-questions are stored
DeviseSubQuestions(ok, usage, subs) ==
    /\ pc = "devise"
    /\ Billed("devise_sub_questions", ok, usage)
    /\ sub_questions' = IF ok THEN ListOf(subs) ELSE sub_questions
    /\ After("google")
    /\ UNCHANGED <<question, context, flags, settings, total_budget, calls,
                   prompt, proposal, iterations>>

Items(x) == IF x.some THEN x.items ELSE << >>

\* a retrieval collaborator: its snippets are appended to the context; a
\* failure is an empty result
Retrieved(name, snippets) ==
    /\ context' = ListOf(Items(context) \o snippets)
    /\ last' = name
    /\ raised' = "none"
    /\ UNCHANGED <<question, sub_questions, flags, settings, ledger,
                   total_budget, observed>>

SearchGoogle(snippets) ==
    /\ pc = "google"
    /\ Retrieved("search_google", snippets)
    /\ pc' = "papers"

SearchPapers(snippets) ==
    /\ pc = "papers"
    /\ Retrieved("search_papers", snippets)
    /\ pc' = "answer_sub"

\* answer_sub_questions(): the flag is set when the model affirms
AnswerSubQuestions(ok, usage, affirms) ==
    /\ pc = "answer_sub"
    /\ Billed("answer_sub_questions", ok, usage)
    /\ sub_questions_answered' = (sub_questions_answered \/ (ok /\ affirms))
    /\ After("answer_main")
    /\ UNCHANGED <<session, main_question_answered, turn, settings,
                   total_budget, calls, prompt, proposal, iterations>>

\* answer = rai.answer_main_question(); the loop body ends here
AnswerMainQuestion(ok, usage, affirms) ==
    /\ pc = "answer_main"
    /\ Billed("answer_main_question", ok, usage)
    /\ main_question_answered' = (main_question_answered \/ (ok /\ affirms))
    /\ After("loop_head")
    /\ iterations' = IF raised' = "none" THEN iterations + 1 ELSE iterations
    /\ UNCHANGED <<session, sub_questions_answered, turn, settings,
                   total_budget, calls, prompt, proposal>>

\* answer = rai.summarize_findings() after the loop, then it is printed
FinalSummary(ok, usage) ==
    /\ pc = "final_summary"
    /\ summarize_findings(ok, usage)
    /\ After("Concluded")
    /\ UNCHANGED <<question, sub_questions, flags, settings, total_budget,
                   calls, prompt, proposal, iterations>>

(* ------------------------- specifications ------------------------------ *)

\* the ledger on its own: direct update_cost calls, the budget and reset
LedgerNext ==
    \/ \E t \in TokenArgs, m \in ModelArgs : UpdateCost(t[1], t[2], m)
    \/ \E b \in BudgetArgs : SetTotalBudget(b)
    \/ Reset

LedgerSpec == Init /\ [][LedgerNext]_vars

\* the two gateway capabilities and the proposal request, called directly
GatewayNext ==
    \/ \E ok \in BOOLEAN, u \in Usages, m \in ModelArgs :
          CreateChatCompletion(ok, u, m)
    \/ \E ok \in BOOLEAN, u \in Usages, m \in {"text-embedding-ada-002", UnlistedModel} :
          EmbeddingCreate(ok, u, m)
    \/ \E ok \in BOOLEAN, u \in Usages, r \in Responses :
          GetProposedResearchJson(ok, u, r)

GatewaySpec == Init /\ [][GatewayNext]_vars

\* a session set up and queried by hand, as the script of researcher.py does
SessionNext ==
    \/ \E q \in QuestionArgs, c \in ContextArgs, tq \in TypedQuestions,
          tc \in TypedContexts : DefineQuestion(q, c, tq, tc)
    \/ GenerateFirstPrompt
    \/ \E ok \in BOOLEAN, u \in LoopUsages, r \in Responses :
          GetProposedResearchJson(ok, u, r)
    \/ \E b \in Budgets : SetTotalBudget(b)
    \/ Reset

SessionSpec == Init /\ [][SessionNext]_vars

\* research_loop, on an object the caller has configured
Next ==
    \/ \E q \in QuestionArgs, c \in ContextArgs, tq \in TypedQuestions,
          tc \in TypedContexts : DefineQuestion(q, c, tq, tc)
    \/ \E b \in Budgets : SetTotalBudget(b)
    \/ StartLoop
    \/ LoopHead
    \/ \E ok \in BOOLEAN, u \in LoopUsages, r \in Responses : Propose(ok, u, r)
    \/ \E ok \in BOOLEAN, u \in LoopUsages : Summarize(ok, u)
    \/ \E ok \in BOOLEAN, u \in LoopUsages, s \in SubQuestionLists :
          DeviseSubQuestions(ok, u, s)
    \/ \E sn \in {<< >>, <<"web result">>} : SearchGoogle(sn)
    \/ \E sn \in {<< >>, <<"paper">>} : SearchPapers(sn)
    \/ \E ok \in BOOLEAN, u \in LoopUsages, a \in BOOLEAN :
          AnswerSubQuestions(ok, u, a)
    \/ \E ok \in BOOLEAN, u \in LoopUsages, a \in BOOLEAN :
          AnswerMainQuestion(ok, u, a)
    \/ \E ok \in BOOLEAN, u \in LoopUsages : FinalSummary(ok, u)
    \/ Reset

Spec == Init /\ [][Next]_vars

(* ------------------------- claims -------------------------------------- *)

\* the budget-exceeded condition of the ledger's contract
BudgetExceeded == FLess(FZero, total_budget) /\ FLess(total_budget, total_cost)

\* the cost of one call by the price table:
\* (prompt_tokens * price.prompt + completion_tokens * price.completion) / 1000
CostDelta(call) ==
    FDivInt(FAdd(FMul(FFromInt(call.prompt_tokens), COSTS[call.model].prompt),
                 FMul(FFromInt(call.completion_tokens), COSTS[call.model].completion)),
            1000)

\* the deltas of a sequence of calls, added in its order
RECURSIVE SumCost(_)
SumCost(s) ==
    IF s = << >> THEN FZero
    ELSE FAdd(SumCost(SubSeq(s, 1, Len(s) - 1)), CostDelta(s[Len(s)]))

RECURSIVE SumPrompt(_)
SumPrompt(s) ==
    IF s = << >> THEN 0 ELSE s[1].prompt_tokens + SumPrompt(Tail(s))

RECURSIVE SumCompletion(_)
SumCompletion(s) ==
    IF s = << >> THEN 0 ELSE s[1].completion_tokens + SumCompletion(Tail(s))

Orderings(n) ==
    {f \in [1..n -> 1..n] : \A i, j \in 1..n : f[i] = f[j] => i = j}

Reordered(s, f) == [i \in 1..Len(s) |-> s[f[i]]]

AllKnown(s) == \A i \in 1..Len(s) : s[i].model \in DOMAIN COSTS

\* C1: after any sequence of update_cost calls with known models on a fresh
\* or reset ledger, the token totals are the sums of the arguments and
\* total_cost is the sum of the per-call deltas, whichever order the same
\* calls are taken in.
C1_CostIsOrderIndependentSum ==
    AllKnown(calls) =>
        /\ total_prompt_tokens = SumPrompt(calls)
        /\ total_completion_tokens = SumCompletion(calls)
        /\ \A f \in Orderings(Len(calls)) :
              total_cost = SumCost(Reordered(calls, f))

\* the steps of research_loop that issue a billed gateway call
BilledSteps == {"propose", "summarize", "devise", "answer_sub", "answer_main",
                "final_summary"}

\* C2: the loop stops at its head when the main question is answered or the
\* budget is exceeded (and so ends even if the model never affirms).
C2_LoopStopsWhenAnsweredOrOverBudget ==
    [][(pc = "loop_head" /\ (main_question_answered \/ BudgetExceeded))
          => pc' = "final_summary"]_vars

\* C3: with a positive budget no billed gateway call is issued once
\* total_cost is above total_budget.
C3_NoBilledCallOverBudget == BudgetExceeded => pc \notin BilledSteps

\* C4: total_budget is zero at construction and after reset, and with
\* total_budget zero the budget condition is false whatever total_cost is and
\* the loop is left at its head only because the main question is answered.
C4_ZeroBudgetNeverStops ==
    [][/\ last \in {"ResearchAI", "reset"} => FIsZero(total_budget)
       /\ last' = "reset" => FIsZero(total_budget')
       /\ FIsZero(total_budget) =>
             /\ ~BudgetExceeded
             /\ (pc = "loop_head" /\ pc' = "final_summary")
                   => main_question_answered]_vars

C4_Witness ==
    /\ FIsZero(total_budget)
    /\ FLess(FZero, total_cost)
    /\ iterations >= 1
    /\ pc = "propose"

\* C5: right after reset() every getter returns zero, the turn counter is 0
\* and both flags are false, whatever was done before.
C5_ResetZeroes ==
    last = "reset" =>
        /\ get_total_prompt_tokens = 0
        /\ get_total_completion_tokens = 0
        /\ get_total_cost = FZero
        /\ get_total_budget = FZero
        /\ turn = 0
        /\ ~sub_questions_answered
        /\ ~main_question_answered

C5_Witness == last = "reset" /\ pc = "Concluded" /\ requests > 1

\* C6: update_cost with a model the price table does not list ends in an
\* error; it does not complete normally.
C6_UnknownModelIsAnError ==
    (last = "update_cost" /\ calls[Len(calls)].model \notin DOMAIN COSTS)
        => raised # "none"

C6_Witness ==
    /\ last = "update_cost"
    /\ Len(calls) > 1
    /\ calls[Len(calls)].model = UnlistedModel
    /\ raised = "KeyError"

\* the positions of research_loop inside the while loop
LoopSteps == BilledSteps \cup {"loop_head", "google", "papers"}

\* C7: turn counts the completed iterations of the loop, and the main
\* question is answered only after a first turn.
C7_TurnCountsIterations ==
    /\ pc \in LoopSteps => turn = iterations
    /\ main_question_answered => turn >= 1

\* C8: a gateway call whose provider request succeeds leaves the ledger
\* updated once with the usage that request reported, in all three totals;
\* one whose provider request fails leaves the three totals as they were.
C8_LedgerFollowsProvider ==
    [][last' \in {"create_chat_completion", "embedding_create"} =>
          IF gateway'.ok
          THEN /\ raised' = "none"
               /\ total_prompt_tokens' = total_prompt_tokens + gateway'.prompt_tokens
               /\ total_completion_tokens' =
                      total_completion_tokens + gateway'.completion_tokens
               /\ total_cost' = FAdd(total_cost, CostDelta(gateway'))
          ELSE UNCHANGED ledger]_vars

\* C9: an answer to the proposal prompt that is no valid ActionProposal is a
\* MalformedActionError the loop recovers from: no other error type leaves
\* the call, no other shape is returned as a proposal, and the loop does not
\* crash on it.
C9_MalformedIsRecoverable ==
    /\ raised # "JSONDecodeError"
    /\ proposal.kind \in {"none", "proposal"}
    /\ raised = "MalformedActionError" => pc # "Crashed"

\* C10: generate_first_prompt changes no field of the session or the ledger,
\* and a prompt rendered from the session state the previous one was rendered
\* from has the same content.
C10_PromptIsPure ==
    [][last' = "generate_first_prompt" =>
          /\ UNCHANGED <<session, flags, settings, ledger, total_budget>>
          /\ prompt'.state = prompt.state => prompt'.content = prompt.content]_vars

C10_Witness ==
    /\ last = "generate_first_prompt"
    /\ question # NoneStr
    /\ total_prompt_tokens > 0
    /\ prompt.state = SessionState

\* C11: without reset, total_cost never decreases from one state to the
\* next and the three totals stay non-negative; update_cost with a negative
\* token count is rejected, not applied.
C11_CostNeverDecreases ==
    [][last' = "update_cost" =>
          /\ ~FLess(total_cost', total_cost)
          /\ total_prompt_tokens' >= 0
          /\ total_completion_tokens' >= 0
          /\ ~FLess(total_cost', FZero)
          /\ (calls'[Len(calls')].prompt_tokens < 0
                \/ calls'[Len(calls')].completion_tokens < 0)
                => (raised' # "none" /\ UNCHANGED ledger)]_vars

\* C12: the main-question step is entered only with sub_questions_answered
\* true, so main_question_answered implies sub_questions_answered.
C12_MainAnswerNeedsSubAnswers ==
    /\ pc = "answer_main" => sub_questions_answered
    /\ main_question_answered => sub_questions_answered

\* the stage of a turn each position of the loop body belongs to: proposing
\* (the proposal and its sub-questions), web search, paper search,
\* summarizing, answering the sub-questions, answering the main question
StageOf ==
    [s \in {"propose", "devise", "google", "papers", "summarize",
            "answer_sub", "answer_main"} |->
        CASE s \in {"propose", "devise"} -> 1
          [] s = "google" -> 2
          [] s = "papers" -> 3
          [] s = "summarize" -> 4
          [] s = "answer_sub" -> 5
          [] s = "answer_main" -> 6]

\* C13: within a turn the steps run in the order propose, web search, paper
\* search, summarize, answer sub-questions, answer main question: the loop
\* body never goes from a later stage back to an earlier one, so no
\* summarization precedes the retrieval of its turn.
C13_StepsInFixedOrder ==
    [][(pc \in DOMAIN StageOf /\ pc' \in DOMAIN StageOf)
          => StageOf[pc'] >= StageOf[pc]]_vars

\* C14: the web-search collaborator is called in a turn only if the proposal
\* parsed in that turn is an ActionProposal with internet_search true.
C14_RetrievalFollowsProposal ==
    last = "search_google" =>
        (proposal.kind = "proposal" /\ proposal.internet_search)

\* C15: no proposal request is issued, and the loop body is not entered,
\* while question is unset or empty; define_question never stores an empty
\* question.
C15_NoProposalWithoutQuestion ==
    /\ (pc = "propose" \/ last = "get_proposed_research_json")
          => question \notin {NoneStr, ""}
    /\ (last = "define_question" /\ raised = "none") => question # ""

\* turn numbers a session may stand at
TurnValues == 0 .. MaxTurns

\* C16: the prompt renders the turn number: a session that differs from the
\* current one only in the value of turn gets a different prompt.
C16_PromptRendersTurn ==
    \A t \in TurnValues :
        t # turn =>
            first_prompt_content(question, sub_questions, context, t)
                # generate_first_prompt

\* C17: set_total_budget changes no field but total_budget, and a negative
\* amount is refused, so total_budget is never negative.
C17_BudgetNeverNegative ==
    [][/\ ~FLess(total_budget', FZero)
       /\ last' = "set_total_budget" =>
             /\ UNCHANGED <<session, flags, settings, ledger>>
             /\ raised' # "none" => UNCHANGED total_budget]_vars

\* C18: an update_cost that fails because the price table does not list the
\* model leaves the two token totals and total_cost as they were.
C18_UpdateCostAtomicOnFailure ==
    [][(last' = "update_cost" /\ raised' # "none") => UNCHANGED ledger]_vars

\* C19: when the answer to a proposal request does not parse, the ledger
\* already holds that request's tokens and cost on top of everything
\* recorded before it.
C19_UsageRecordedBeforeParse ==
    [][(last' = "get_proposed_research_json" /\ raised' = "JSONDecodeError") =>
          /\ gateway'.ok
          /\ total_prompt_tokens' = total_prompt_tokens + gateway'.prompt_tokens
          /\ total_completion_tokens' =
                 total_completion_tokens + gateway'.completion_tokens
          /\ total_cost' = FAdd(total_cost, CostDelta(gateway'))
          /\ FLess(total_cost, total_cost')]_vars

C19_Witness ==
    /\ last = "get_proposed_research_json"
    /\ raised = "JSONDecodeError"
    /\ requests > 1
    /\ total_prompt_tokens > gateway.prompt_tokens
    /\ gateway.prompt_tokens > 0

\* C20: reset leaves question, sub_questions, context, model, temperature
\* and max_tokens as they were: a session reset after define_question still
\* holds its question and context.
C20_ResetKeepsSession ==
    [][last' = "reset" =>
          UNCHANGED <<question, sub_questions, context, model, temperature,
                      max_tokens>>]_vars

C20_Witness ==
    /\ last = "reset"
    /\ question \notin {NoneStr, ""}
    /\ context.some
    /\ total_cost = FZero
    /\ requests > 0
====
